---- MODULE Spec2Model ----
(***************************************************************************)
(* State-machine model of src/main.py (ModernChatWindow and its helpers).  *)
(*                                                                         *)
(* Text is a sequence of one-character strings; the fixed literals of the  *)
(* program (welcome text, canned responses, sender names, format pieces)   *)
(* are single fragments that contain no line break.  Non-ASCII characters  *)
(* of the source literals are transliterated ("Tu" for the local sender,   *)
(* ":grin:" for the first emoji).                                          *)
(***************************************************************************)
EXTENDS Integers, Sequences, FiniteSets, TLC

VARIABLES
    pc,             \* "constructed" (main() before the welcome), "running", "exited"
    themes,         \* Themes.DARK/LIGHT/NORD: name -> colors dict (mutable objects)
    current_theme,  \* self.current_theme (name of the referenced Theme)
    styleSheet,     \* the window style sheet written by apply_theme
    messages,       \* self.messages
    layout,         \* self.messages_layout: its items, index 0 first
    message_input,  \* text of self.message_input (cursor kept at the end)
    emoji_visible,  \* self.emoji_panel.isVisible()
    contact_search, \* text of self.contact_search
    hidden,         \* isHidden() of the four items of self.contacts_list
    tray_visible,   \* self.tray_icon.isVisible()
    window_visible, \* the main window is shown
    timers,         \* number of pending QTimer.singleShot(1000, simulate_response)
    clock,          \* datetime.now(), one tick per constructed Message
    file,           \* the file last written by save_chat_history
    notification,   \* the text last passed to tray_icon.showMessage
    lastOp          \* the handler that ran last, with its input

vars == <<pc, themes, current_theme, styleSheet, messages, layout, message_input,
          emoji_visible, contact_search, hidden, tray_visible, window_visible,
          timers, clock, file, notification, lastOp>>

\* ------------------------------------------------------------------ bounds
MaxLog == 3        \* messages in the log plus pending replies (full program)
MaxChat == 5       \* the same, for the messaging specification
MaxSend == 3       \* the same, for the composing specification
MaxDraft == 1      \* characters in the composer (full program, messaging)
MaxInput == 3      \* characters in the composer (composing specification)
MaxAttach == 2     \* attachments in the attachment specification
MaxSearch == 2     \* characters in the contact search box

\* ------------------------------------------------------------- text helpers
Whitespace == {" ", "\n", "\t"}

RECURSIVE lstrip(_)
lstrip(s) ==
    IF s # <<>> /\ Head(s) \in Whitespace THEN lstrip(Tail(s)) ELSE s

RECURSIVE rstrip(_)
rstrip(s) ==
    IF s # <<>> /\ s[Len(s)] \in Whitespace
    THEN rstrip(SubSeq(s, 1, Len(s) - 1)) ELSE s

\* str.strip()
strip(s) == rstrip(lstrip(s))

UpperCase == <<"A","B","C","D","E","F","G","H","I","J","K","L","M",
               "N","O","P","Q","R","S","T","U","V","W","X","Y","Z">>
LowerCase == <<"a","b","c","d","e","f","g","h","i","j","k","l","m",
               "n","o","p","q","r","s","t","u","v","w","x","y","z">>

LowerOf == [c \in {UpperCase[i] : i \in 1..26} |->
              LowerCase[CHOOSE i \in 1..26 : UpperCase[i] = c]]

lowerChar(c) == IF c \in DOMAIN LowerOf THEN LowerOf[c] ELSE c

\* str.lower()
lower(s) == [i \in 1..Len(s) |-> lowerChar(s[i])]

\* str.endswith(suffix)
endswith(s, suffix) ==
    /\ Len(s) >= Len(suffix)
    /\ SubSeq(s, Len(s) - Len(suffix) + 1, Len(s)) = suffix

\* `needle in hay` on strings
contains(needle, hay) ==
    \E i \in 1..(Len(hay) - Len(needle) + 1) :
        SubSeq(hay, i, i + Len(needle) - 1) = needle

\* ------------------------------------------------------------------ themes
ThemeNames == {"Dark", "Light", "Nord"}

DARK == [background |-> "#36393F", secondary |-> "#2F3136", accent |-> "#7289DA",
         text |-> "#FFFFFF", input |-> "#40444B", hover |-> "#677BC4",
         pressed |-> "#5B6EAE"]

LIGHT == [background |-> "#FFFFFF", secondary |-> "#F2F3F5", accent |-> "#5865F2",
          text |-> "#2E3338", input |-> "#EBEDEF", hover |-> "#4752C4",
          pressed |-> "#3C45A5"]

NORD == [background |-> "#2E3440", secondary |-> "#3B4252", accent |-> "#88C0D0",
         text |-> "#ECEFF4", input |-> "#434C5E", hover |-> "#81A1C1",
         pressed |-> "#5E81AC"]

Themes == [n \in ThemeNames |->
             IF n = "Dark" THEN DARK ELSE IF n = "Light" THEN LIGHT ELSE NORD]

\* the rules of the style sheet apply_theme sets on the window
WindowStyle(colors) ==
    [widget_bg |-> colors.background, widget_fg |-> colors.text,
     input_bg |-> colors.input, input_fg |-> colors.text,
     button_bg |-> colors.accent, button_hover |-> colors.hover,
     button_pressed |-> colors.pressed, list_bg |-> colors.secondary,
     item_hover |-> colors.input, item_selected |-> colors.accent]

\* ---------------------------------------------------------------- messages
TEXT == "text"
IMAGE == "image"
FILE == "file"
SYSTEM == "system"

Message(content, type, sender, timestamp) ==
    [content |-> content, type |-> type, sender |-> sender, timestamp |-> timestamp]

NoMessage == Message(<<>>, "none", "none", 0)

LocalSender == "Tu"
PeerSender == "Usuario 1"

responses == <<
    <<"Interesante punto de vista!">>,
    <<"Entiendo lo que dices.">>,
    <<"Podrias explicar mas sobre eso?">>,
    <<"Me parece una buena idea.">>,
    <<"Que mas piensas al respecto?">> >>

welcome_content == <<"Bienvenido al chat! Este es un mensaje de sistema.">>

\* ChatMessageWidget(message, theme).setup_ui: the block keeps the message and the
\* theme it was built with; the colors are read from the theme when it is built
ChatMessageWidget(message, theme) ==
    [kind |-> "widget", message |-> message, theme |-> theme,
     body |-> IF message.type = TEXT THEN "label"
              ELSE IF message.type = IMAGE THEN "pixmap" ELSE "attachment",
     header_color |-> themes[theme].accent,
     body_color |-> IF message.type = TEXT THEN themes[theme].text
                    ELSE IF message.type = IMAGE THEN "none"
                    ELSE themes[theme].accent,
     block_bg |-> themes[theme].secondary]

\* the item messages_layout.addStretch() adds
Stretch ==
    [kind |-> "stretch", message |-> NoMessage, theme |-> "none", body |-> "none",
     header_color |-> "none", body_color |-> "none", block_bg |-> "none"]

\* ---------------------------------------------------------------- contacts
contacts == <<
    [name |-> <<"U","s","u","a","r","i","o"," ","1">>, online |-> TRUE],
    [name |-> <<"U","s","u","a","r","i","o"," ","2">>, online |-> FALSE],
    [name |-> <<"G","r","u","p","o"," ","1">>, online |-> TRUE],
    [name |-> <<"U","s","u","a","r","i","o"," ","3">>, online |-> TRUE] >>

\* --------------------------------------------------------------- the state
NoFile == [path |-> <<>>, data |-> <<>>]

Op(name, arg) == [op |-> name, arg |-> arg]

\* ModernChatWindow.__init__ followed by window.show()
Init ==
    /\ pc = "constructed"
    /\ themes = Themes
    /\ current_theme = "Dark"
    /\ styleSheet = WindowStyle(Themes["Dark"])
    /\ messages = <<>>
    /\ layout = <<Stretch>>
    /\ message_input = <<>>
    /\ emoji_visible = FALSE
    /\ contact_search = <<>>
    /\ hidden = [i \in 1..Len(contacts) |-> FALSE]
    /\ tray_visible = TRUE
    /\ window_visible = TRUE
    /\ timers = 0
    /\ clock = 0
    /\ file = NoFile
    /\ notification = <<>>
    /\ lastOp = Op("__init__", <<>>)

\* the user can reach the window's controls
UserCan == pc = "running" /\ window_visible

\* ------------------------------------------------------------ the timeline
\* add_message with the message put first instead of last
add_message_front(message) ==
    /\ messages' = <<message>> \o messages
    /\ layout' = Append(layout, ChatMessageWidget(message, current_theme))

\* add_message: append to the log, render one block with the active theme and
\* add it at the end of the layout
add_message(message) ==
    /\ messages' = Append(messages, message)
    /\ layout' = Append(layout, ChatMessageWidget(message, current_theme))

\* the loop `while count() > 1: takeAt(0)` of refresh_messages: what it leaves
RECURSIVE takeItems(_)
takeItems(items) ==
    IF Len(items) > 1 THEN takeItems(Tail(items)) ELSE items

\* QBoxLayout.insertWidget(index, widget), index counted from 0; a negative index
\* adds at the end
insertWidget(items, index, widget) ==
    IF index < 0 THEN Append(items, widget)
    ELSE SubSeq(items, 1, index) \o <<widget>> \o SubSeq(items, index + 1, Len(items))

\* the loop `for message in self.messages: insertWidget(count() - 1, ...)`
RECURSIVE insertMessages(_, _, _)
insertMessages(items, msgs, theme) ==
    IF msgs = <<>> THEN items
    ELSE insertMessages(
            insertWidget(items, Len(items) - 1, ChatMessageWidget(Head(msgs), theme)),
            Tail(msgs), theme)

refresh_messages(items, msgs, theme) ==
    insertMessages(takeItems(items), msgs, theme)

\* main(): the welcome message, added before the event loop starts
main ==
    /\ pc = "constructed"
    /\ add_message(Message(welcome_content, SYSTEM, "Sistema", clock))
    /\ clock' = clock + 1
    /\ pc' = "running"
    /\ lastOp' = Op("main", <<>>)
    /\ UNCHANGED <<themes, current_theme, styleSheet, message_input, emoji_visible,
                   contact_search, hidden, tray_visible, window_visible, timers,
                   file, notification>>

\* ---------------------------------------------------------------- sending
\* send_message without the strip()
send_message_unstripped ==
    LET text == message_input IN
    IF text # <<>>
    THEN /\ add_message(Message(text, TEXT, LocalSender, clock))
         /\ clock' = clock + 1
         /\ message_input' = <<>>
         /\ timers' = timers + 1
    ELSE UNCHANGED <<messages, layout, clock, message_input, timers>>

\* send_message with the timer started outside the `if text:`
send_message_always_replies ==
    LET text == strip(message_input) IN
    /\ timers' = timers + 1
    /\ IF text # <<>>
       THEN /\ add_message(Message(text, TEXT, LocalSender, clock))
            /\ clock' = clock + 1
            /\ message_input' = <<>>
       ELSE UNCHANGED <<messages, layout, clock, message_input>>

\* send_message: the body shared by the button and the keyboard shortcut
send_message ==
    LET text == strip(message_input) IN
    IF text # <<>>
    THEN /\ add_message(Message(text, TEXT, LocalSender, clock))
         /\ clock' = clock + 1
         /\ message_input' = <<>>
         /\ timers' = timers + 1
    ELSE UNCHANGED <<messages, layout, clock, message_input, timers>>

\* send_button.clicked
send_clicked ==
    /\ UserCan
    /\ send_message
    /\ lastOp' = Op("send_message", message_input)
    /\ UNCHANGED <<pc, themes, current_theme, styleSheet, emoji_visible,
                   contact_search, hidden, tray_visible, window_visible, file,
                   notification>>

\* what QTextEdit inserts for a key press the filter lets through
KeyText(key, modifiers) ==
    IF modifiers = "Control" THEN <<>>
    ELSE IF key = "Return" THEN <<"\n">> ELSE <<key>>

\* eventFilter on a KeyPress of message_input
eventFilter(key, modifiers) ==
    /\ UserCan
    /\ IF key = "Return" /\ modifiers = "Control"
       THEN send_message
       ELSE /\ message_input' = message_input \o KeyText(key, modifiers)
            /\ UNCHANGED <<messages, layout, clock, timers>>
    /\ lastOp' = Op("eventFilter", <<key, modifiers>>)
    /\ UNCHANGED <<pc, themes, current_theme, styleSheet, emoji_visible,
                   contact_search, hidden, tray_visible, window_visible, file,
                   notification>>

\* simulate_response: a pending one-shot timer fires
simulate_response(r) ==
    /\ pc = "running"
    /\ timers > 0
    /\ timers' = timers - 1
    /\ add_message(Message(responses[r], TEXT, PeerSender, clock))
    /\ clock' = clock + 1
    /\ notification' = <<PeerSender, ": ">> \o responses[r]
    /\ lastOp' = Op("simulate_response", responses[r])
    /\ UNCHANGED <<pc, themes, current_theme, styleSheet, message_input,
                   emoji_visible, contact_search, hidden, tray_visible,
                   window_visible, file>>

\* ------------------------------------------------------------- attachments
ImageSuffixes == { <<".","p","n","g">>, <<".","j","p","g">>,
                   <<".","j","p","e","g">>, <<".","g","i","f">> }

\* attachment_type without the lower()
attachment_type_case_sensitive(file_path) ==
    IF ~ (\E suffix \in ImageSuffixes : endswith(file_path, suffix))
    THEN FILE ELSE IMAGE

\* the type select_file gives a picked path
attachment_type(file_path) ==
    IF ~ (\E suffix \in ImageSuffixes : endswith(lower(file_path), suffix))
    THEN FILE ELSE IMAGE

\* select_file, file_path being what the picker returned (empty: cancelled)
select_file(file_path) ==
    /\ UserCan
    /\ IF file_path # <<>>
       THEN /\ add_message(Message(file_path, attachment_type(file_path),
                                   LocalSender, clock))
            /\ clock' = clock + 1
       ELSE UNCHANGED <<messages, layout, clock>>
    /\ lastOp' = Op("select_file", file_path)
    /\ UNCHANGED <<pc, themes, current_theme, styleSheet, message_input,
                   emoji_visible, contact_search, hidden, tray_visible,
                   window_visible, timers, file, notification>>

\* ------------------------------------------------------------------ themes
\* apply_theme copying the new colors into the active Theme object
apply_theme_in_place(theme) ==
    /\ UserCan
    /\ themes' = [themes EXCEPT ![current_theme] = themes[theme]]
    /\ styleSheet' = WindowStyle(themes[theme])
    /\ layout' = refresh_messages(layout, messages, theme)
    /\ lastOp' = Op("apply_theme", <<theme, current_theme>>)
    /\ UNCHANGED <<pc, current_theme, messages, message_input, emoji_visible,
                   contact_search, hidden, tray_visible, window_visible, timers,
                   clock, file, notification>>

apply_theme(theme) ==
    /\ UserCan
    /\ current_theme' = theme
    /\ styleSheet' = WindowStyle(themes[theme])
    /\ layout' = refresh_messages(layout, messages, theme)
    /\ lastOp' = Op("apply_theme", <<theme, current_theme>>)
    /\ UNCHANGED <<pc, themes, messages, message_input, emoji_visible,
                   contact_search, hidden, tray_visible, window_visible, timers,
                   clock, file, notification>>

\* ------------------------------------------------------------------ emojis
toggle_emoji_panel ==
    /\ UserCan
    /\ emoji_visible' = ~ emoji_visible
    /\ lastOp' = Op("toggle_emoji_panel", <<>>)
    /\ UNCHANGED <<pc, themes, current_theme, styleSheet, messages, layout,
                   message_input, contact_search, hidden, tray_visible,
                   window_visible, timers, clock, file, notification>>

\* insert_emoji, from a button of the (visible) emoji panel
insert_emoji(emoji) ==
    /\ UserCan
    /\ emoji_visible
    /\ message_input' = Append(message_input, emoji)
    /\ lastOp' = Op("insert_emoji", <<emoji>>)
    /\ UNCHANGED <<pc, themes, current_theme, styleSheet, messages, layout,
                   emoji_visible, contact_search, hidden, tray_visible,
                   window_visible, timers, clock, file, notification>>

\* ---------------------------------------------------------------- contacts
\* filter_contacts without the lower() on the label
filter_contacts_case_sensitive(text) ==
    /\ UserCan
    /\ text # contact_search
    /\ contact_search' = text
    /\ hidden' = [i \in 1..Len(contacts) |->
                    ~ contains(lower(text), contacts[i].name)]
    /\ lastOp' = Op("filter_contacts", text)
    /\ UNCHANGED <<pc, themes, current_theme, styleSheet, messages, layout,
                   message_input, emoji_visible, tray_visible, window_visible,
                   timers, clock, file, notification>>

\* filter_contacts(text), called when the text of contact_search changes
filter_contacts(text) ==
    /\ UserCan
    /\ text # contact_search
    /\ contact_search' = text
    /\ hidden' = [i \in 1..Len(contacts) |->
                    ~ contains(lower(text), lower(contacts[i].name))]
    /\ lastOp' = Op("filter_contacts", text)
    /\ UNCHANGED <<pc, themes, current_theme, styleSheet, messages, layout,
                   message_input, emoji_visible, tray_visible, window_visible,
                   timers, clock, file, notification>>

\* ------------------------------------------------------------------ export
\* timestamp.strftime('%Y-%m-%d %H:%M:%S'), the clock counting seconds
strftime(timestamp) ==
    <<"1970-01-01 00:00:" \o (IF timestamp < 10 THEN "0" ELSE "") \o ToString(timestamp)>>

\* the text written for one message by the .txt branch
text_record(message) ==
    <<"[">> \o strftime(message.timestamp) \o <<"] ", message.sender, ": ">>
        \o message.content \o <<"\n">>

\* the text written for one message by the HTML branch
html_record(message, colors) ==
    <<"<div style='margin: 10px; padding: 10px; background-color: ",
      colors.secondary, ";'><strong style='color: ", colors.accent, ";'>",
      message.sender, "</strong> <span style='color: #999; font-size: 0.8em;'>">>
        \o strftime(message.timestamp)
        \o <<"</span><br><span style='color: ", colors.text, ";'>">>
        \o message.content \o <<"</span></div>">>

RECURSIVE text_export(_)
text_export(msgs) ==
    IF msgs = <<>> THEN <<>> ELSE text_record(Head(msgs)) \o text_export(Tail(msgs))

RECURSIVE html_records(_, _)
html_records(msgs, colors) ==
    IF msgs = <<>> THEN <<>>
    ELSE html_record(Head(msgs), colors) \o html_records(Tail(msgs), colors)

html_export(msgs, colors) ==
    <<"<html><body style='font-family: Arial, sans-serif;'>">>
        \o html_records(msgs, colors) \o <<"</body></html>">>

TxtSuffix == <<".","t","x","t">>

\* save_chat_history, file_path being what the picker returned (empty: cancelled)
save_chat_history(file_path) ==
    /\ UserCan
    /\ IF file_path = <<>>
       THEN UNCHANGED file
       ELSE IF endswith(file_path, TxtSuffix)
            THEN file' = [path |-> file_path, data |-> text_export(messages)]
            ELSE file' = [path |-> file_path,
                          data |-> html_export(messages, themes[current_theme])]
    /\ lastOp' = Op("save_chat_history", file_path)
    /\ UNCHANGED <<pc, themes, current_theme, styleSheet, messages, layout,
                   message_input, emoji_visible, contact_search, hidden,
                   tray_visible, window_visible, timers, clock, notification>>

\* ------------------------------------------------------------------- close
\* closeEvent that never ignores the event
closeEvent_accepts ==
    /\ UserCan
    /\ window_visible' = FALSE
    /\ pc' = "exited"
    /\ lastOp' = Op("closeEvent", <<>>)
    /\ UNCHANGED <<themes, current_theme, styleSheet, messages, layout,
                   message_input, emoji_visible, contact_search, hidden,
                   tray_visible, timers, clock, file, notification>>

\* closeEvent: hide and ignore the event while the tray icon is visible; otherwise
\* the event stays accepted, the last window closes and app.exec() returns
closeEvent ==
    /\ UserCan
    /\ window_visible' = FALSE
    /\ pc' = IF tray_visible THEN pc ELSE "exited"
    /\ lastOp' = Op("closeEvent", <<>>)
    /\ UNCHANGED <<themes, current_theme, styleSheet, messages, layout,
                   message_input, emoji_visible, contact_search, hidden,
                   tray_visible, timers, clock, file, notification>>

\* ---------------------------------------------------------- the full program
Emojis == {":grin:"}
ImagePath == <<"p",".","P","N","G">>
OtherPath == <<"d",".","t","x","t">>
TxtPath == <<"c",".","t","x","t">>
HtmlPath == <<"c",".","h","t","m","l">>

\* room left in the bounded log for n more messages
Room(n, cap) == Len(messages) + timers + n <= cap

\* a key press, one of strokes, that leaves the composer within cap characters
KeyPress(strokes, cap) ==
    \E stroke \in strokes :
        /\ Len(message_input \o KeyText(stroke[1], stroke[2])) <= cap
        /\ eventFilter(stroke[1], stroke[2])

Reply == \E r \in 1..Len(responses) : simulate_response(r)

Next ==
    \/ main
    \/ Room(2, MaxLog) /\ KeyPress({<<"Return", "Control">>}, MaxDraft)
    \/ Room(2, MaxLog) /\ send_clicked
    \/ Reply
    \/ \E file_path \in {<<>>, ImagePath} :
          Room(1, MaxLog) /\ select_file(file_path)
    \/ \E theme \in ThemeNames : apply_theme(theme)
    \/ toggle_emoji_panel
    \/ \E emoji \in Emojis : Len(message_input) < MaxDraft /\ insert_emoji(emoji)
    \/ \E text \in {<<>>, <<"g","R">>} : filter_contacts(text)
    \/ \E file_path \in {<<>>, TxtPath} : save_chat_history(file_path)
    \/ closeEvent

Spec == Init /\ [][Next]_vars

\* the one-shot timers are served by the running event loop
FairSpec == Spec /\ WF_vars(Reply)

\* ------------------------------------------- messaging and theme switching
NextChat ==
    \/ main
    \/ Room(2, MaxChat) /\ KeyPress({<<"a", "None">>, <<"Return", "Control">>}, MaxDraft)
    \/ Room(2, MaxChat) /\ send_clicked
    \/ Reply
    \/ \E file_path \in {<<>>, ImagePath, OtherPath} :
          Room(1, MaxChat) /\ select_file(file_path)
    \/ \E theme \in ThemeNames : apply_theme(theme)

SpecChat == Init /\ [][NextChat]_vars

\* -------------------------------------------------- composing and exporting
NextSend ==
    \/ main
    \/ Room(2, MaxSend) /\ KeyPress({"a", " ", "Return"} \X {"None", "Control"}, MaxInput)
    \/ Room(2, MaxSend) /\ send_clicked
    \/ Reply
    \/ toggle_emoji_panel
    \/ \E emoji \in Emojis : Len(message_input) < MaxInput /\ insert_emoji(emoji)
    \/ \E file_path \in {<<>>, TxtPath, HtmlPath} : save_chat_history(file_path)

SpecSend == Init /\ [][NextSend]_vars

\* ------------------------------------------------------------- attachments
PickedPaths ==
    { <<>>,
      <<"p","h","o","t","o",".","P","N","G">>, <<"a",".","p","n","g">>,
      <<"a",".","j","p","g">>, <<"a",".","J","p","E","g">>, <<"a",".","g","i","f">>,
      <<".","G","I","F">>, <<"a",".","p","n","g",".","t","x","t">>,
      <<"a",".","t","x","t">>, <<"p","n","g">>, <<"a","p","n","g">>,
      <<"a",".","p","n","g"," ">>, <<"a",".","j","p","e">>, <<"g","i","f",".">> }

NextAttach ==
    \/ main
    \/ \E file_path \in PickedPaths :
          Len(messages) <= MaxAttach /\ select_file(file_path)

SpecAttach == Init /\ [][NextAttach]_vars

\* ---------------------------------------------------------- contact search
SearchChars == {"u", "U", "s", "o", " ", "1", "2", "3", "G", "x"}

RECURSIVE TextsUpTo(_, _)
TextsUpTo(chars, n) ==
    IF n = 0 THEN { <<>> }
    ELSE LET shorter == TextsUpTo(chars, n - 1) IN
         shorter \cup { Append(t, c) : t \in shorter, c \in chars }

NextFilter ==
    \/ main
    \/ \E text \in TextsUpTo(SearchChars, MaxSearch) : filter_contacts(text)

SpecFilter == Init /\ [][NextFilter]_vars

\* ============================================================== properties
Last(s) == s[Len(s)]

IsPrefix(s, t) == Len(s) <= Len(t) /\ SubSeq(t, 1, Len(s)) = s

Blank(s) == \A i \in 1..Len(s) : s[i] \in Whitespace

\* t is s without its leading and trailing whitespace
TrimOf(s, t) ==
    \E i \in 0..Len(s), j \in 0..Len(s) :
        /\ i + j <= Len(s)
        /\ Blank(SubSeq(s, 1, i))
        /\ Blank(SubSeq(s, Len(s) - j + 1, Len(s)))
        /\ t = SubSeq(s, i + 1, Len(s) - j)
        /\ t # <<>> => (t[1] \notin Whitespace /\ t[Len(t)] \notin Whitespace)

\* the step is a Send: the button, or Control+Return in the composer
SendStep ==
    \/ lastOp'.op = "send_message"
    \/ lastOp'.op = "eventFilter" /\ lastOp'.arg = <<"Return", "Control">>

\* C1: a Send on a composer text that is not blank appends exactly one Text
\* message of the local user holding the trimmed text and clears the composer; a
\* Send on an empty or blank composer appends nothing and starts no reply timer.
C1_SendContract ==
    [][SendStep =>
        IF Blank(message_input)
        THEN messages' = messages /\ timers' = timers
        ELSE /\ Len(messages') = Len(messages) + 1
             /\ IsPrefix(messages, messages')
             /\ Last(messages').type = TEXT
             /\ Last(messages').sender = LocalSender
             /\ TrimOf(message_input, Last(messages').content)
             /\ message_input' = <<>>]_vars

\* a Send of " a " has appended the Text message "a" and cleared the composer
C1_Witness ==
    /\ lastOp = Op("send_message", <<" ", "a", " ">>)
    /\ Last(messages) = Message(<<"a">>, TEXT, LocalSender, Last(messages).timestamp)
    /\ message_input = <<>>

SendIndexes ==
    {i \in 1..Len(messages) :
        messages[i].sender = LocalSender /\ messages[i].type = TEXT}

ReplyIndexes == {i \in 1..Len(messages) : messages[i].sender = PeerSender}

\* the k-th smallest element of a set of indexes
Kth(S, k) == CHOOSE i \in S : Cardinality({j \in S : j < i}) = k - 1

\* C2: the replies in the log plus the pending reply timers are as many as the
\* Send messages in the log, every reply is a Text of the fixed peer holding one of
\* the 5 responses, and the k-th reply stands after the k-th Send message.
C2_OneReplyPerSend ==
    /\ Cardinality(ReplyIndexes) + timers = Cardinality(SendIndexes)
    /\ \A i \in ReplyIndexes :
          /\ messages[i].type = TEXT
          /\ \E r \in 1..5 : messages[i].content = responses[r]
    /\ \A k \in 1..Cardinality(ReplyIndexes) :
          Kth(ReplyIndexes, k) > Kth(SendIndexes, k)

\* two Sends, then their two replies, no timer left
C2_Witness ==
    /\ Len(messages) = 5
    /\ SendIndexes = {2, 3}
    /\ ReplyIndexes = {4, 5}
    /\ timers = 0

\* the message blocks of the timeline, in display order
Blocks == SelectSeq(layout, LAMBDA item : item.kind = "widget")

\* C3: once started, the timeline shows as many blocks as the log has messages,
\* and its i-th block shows the i-th message.
C3_TimelineIsLog ==
    pc = "running" => [i \in 1..Len(Blocks) |-> Blocks[i].message] = messages

\* C4: every displayed message block was rendered with the active theme.
C4_BlocksCarryActiveTheme ==
    \A i \in 1..Len(Blocks) : Blocks[i].theme = current_theme

\* c and d are the same letter in either case, or the same character
SameLetter(c, d) ==
    \/ c = d
    \/ \E i \in 1..26 : {c, d} = {UpperCase[i], LowerCase[i]}

\* s ends in suffix, letter case ignored
EndsWithAnyCase(s, suffix) ==
    /\ Len(s) >= Len(suffix)
    /\ \A k \in 1..Len(suffix) : SameLetter(s[Len(s) - Len(suffix) + k], suffix[k])

\* C5: picking a non-empty path appends one message holding the path, of kind
\* Image exactly when the path ends in .png, .jpg, .jpeg or .gif in any letter
\* case and of kind File otherwise; a cancelled picker appends nothing.
C5_AttachmentKind ==
    [][lastOp'.op = "select_file" =>
        LET path == lastOp'.arg IN
        IF path = <<>>
        THEN messages' = messages
        ELSE /\ Len(messages') = Len(messages) + 1
             /\ IsPrefix(messages, messages')
             /\ Last(messages').content = path
             /\ Last(messages').type =
                   IF \E suffix \in {<<".","p","n","g">>, <<".","j","p","g">>,
                                     <<".","j","p","e","g">>, <<".","g","i","f">>} :
                         EndsWithAnyCase(path, suffix)
                   THEN IMAGE ELSE FILE]_vars

\* "photo.PNG" was attached as an Image and "a.png.txt" as a File
C5_Witness ==
    /\ \E i \in 1..Len(messages) :
          /\ messages[i].content = <<"p","h","o","t","o",".","P","N","G">>
          /\ messages[i].type = IMAGE
    /\ \E i \in 1..Len(messages) :
          /\ messages[i].content = <<"a",".","p","n","g",".","t","x","t">>
          /\ messages[i].type = FILE

\* the newline-terminated lines of a text
RECURSIVE SplitLines(_, _)
SplitLines(data, line) ==
    IF data = <<>> THEN (IF line = <<>> THEN <<>> ELSE <<line>>)
    ELSE IF Head(data) = "\n" THEN <<line>> \o SplitLines(Tail(data), <<>>)
    ELSE SplitLines(Tail(data), Append(line, Head(data)))

\* C6: right after an export to a .txt destination the file has one line per
\* message of the log, the i-th being `[timestamp] sender: content` of the i-th
\* message.
C6_OneLinePerMessage ==
    (lastOp = Op("save_chat_history", TxtPath)) =>
        LET lines == SplitLines(file.data, <<>>) IN
        /\ Len(lines) = Len(messages)
        /\ \A i \in 1..Len(messages) :
              lines[i] = <<"[">> \o strftime(messages[i].timestamp)
                            \o <<"] ", messages[i].sender, ": ">>
                            \o messages[i].content

\* C7: across every step the log before is a prefix of the log after and grows
\* by at most one entry; only the welcome, Send, Attach file and Auto-reply make it
\* grow; theme switch, emoji toggle, emoji selection, export, contact filtering
\* and close leave it as it is.
C7_AppendOnly ==
    [][/\ IsPrefix(messages, messages')
       /\ Len(messages') <= Len(messages) + 1
       /\ messages' # messages =>
             \/ lastOp'.op \in {"main", "send_message", "select_file",
                                "simulate_response"}
             \/ lastOp'.op = "eventFilter" /\ lastOp'.arg = <<"Return", "Control">>
       /\ lastOp'.op \in {"apply_theme", "toggle_emoji_panel", "insert_emoji",
                          "save_chat_history", "filter_contacts", "closeEvent"}
             => messages' = messages]_vars

\* a theme switch on a log that the welcome, a Send and its reply have extended
C7_Witness ==
    /\ lastOp.op = "apply_theme"
    /\ Len(messages) = 3
    /\ SendIndexes = {2}
    /\ ReplyIndexes = {3}

C9_ThemeReassignment ==
    [][/\ themes = Themes /\ themes' = themes
       /\ lastOp'.op = "apply_theme" =>
             LET theme == lastOp'.arg[1] IN
             /\ current_theme' = theme
             /\ styleSheet' = WindowStyle(Themes[theme])
             /\ (lastOp.op = "apply_theme" /\ current_theme = theme) =>
                   /\ styleSheet' = styleSheet
                   /\ layout' = layout]_vars

\* Dark again, switched to from Light, with the Dark chrome
C9_Witness ==
    /\ lastOp = Op("apply_theme", <<"Dark", "Light">>)
    /\ current_theme = "Dark"
    /\ styleSheet = WindowStyle(DARK)

\* text occurs in name, letter case ignored
OccursAnyCase(text, name) ==
    \E offset \in 0..(Len(name) - Len(text)) :
        \A k \in 1..Len(text) : SameLetter(text[k], name[offset + k])

====
